---- MODULE Spec2Model ----
(***************************************************************************)
(* Tool-execution pipeline of perplexity-mcp: tool variants, the API       *)
(* gateway with its similarity cache, the usage reporter and the response  *)
(* formatters.                                                             *)
(*                                                                         *)
(* The four gateway-based tools are those of                               *)
(* crates/perplexity_mcp_tools/src/perplexity_mcp_tools.rs; DeepResearch   *)
(* is the one of crates/perplexity_mcp_tools/src/lib.rs.                   *)
(***************************************************************************)
EXTENDS Integers, Sequences, FiniteSets, TLC

VARIABLES
    inv,        \* per task slot: the tool invocation it runs (see NewInv)
    cache,      \* entries held by the similarity cache backend
    cacheKind,  \* which SimilarityCache implementation was injected
    cred,       \* TRUE iff PERPLEXITY_API_KEY is set in the environment
    ncalls      \* number of execute() calls dispatched so far

vars == <<inv, cache, cacheKind, cred, ncalls>>

----------------------------------------------------------------------------
(* Bounds *)

MaxCalls == 2
MaxSims == 2

----------------------------------------------------------------------------
(* serde_json::Value, as far as the pipeline looks into it *)

Absent == [k |-> "absent", s |-> "", n |-> 0]
JNull == [k |-> "null", s |-> "", n |-> 0]
JStr(s) == [k |-> "str", s |-> s, n |-> 0]
JU64(n) == [k |-> "u64", s |-> "", n |-> n]
JF64 == [k |-> "f64", s |-> "", n |-> 0]
\* a negative integer
JI64(n) == [k |-> "i64", s |-> "", n |-> n]
\* a positive integer above i64::MAX, whose value the model does not keep
JU64Big == [k |-> "u64big", s |-> "", n |-> 0]

IsStr(v) == v.k = "str"
IsU64(v) == v.k \in {"u64", "u64big"}
\* Value::as_i64: Some for an integer that fits i64
IsI64(v) == v.k \in {"u64", "i64"}
\* Option<&str>::unwrap_or
StrOr(v, d) == IF IsStr(v) THEN v.s ELSE d

RECURSIVE Join(_, _)
Join(ss, sep) ==
    IF Len(ss) = 0 THEN ""
    ELSE IF Len(ss) = 1 THEN Head(ss)
    ELSE Head(ss) \o sep \o Join(Tail(ss), sep)

----------------------------------------------------------------------------
(* Citations and response payloads *)

NoAuthors == [k |-> "absent", items |-> <<>>]
Authors(ss) == [k |-> "arr", items |-> ss]

CitStr(u) ==
    [k |-> "str", s |-> u, title |-> Absent, url |-> Absent,
     authors |-> NoAuthors, date |-> Absent, publisher |-> Absent]
CitObj(title, url, authors, date, publisher) ==
    [k |-> "obj", s |-> "", title |-> title, url |-> url,
     authors |-> authors, date |-> date, publisher |-> publisher]

NoCitations == [k |-> "absent", items |-> <<>>]
CitList(cs) == [k |-> "arr", items |-> cs]
CitNotList == [k |-> "str", items |-> <<>>]

NoUsage == [k |-> "absent", completion_tokens |-> Absent,
            prompt_tokens |-> Absent, total_tokens |-> Absent]
UsageObj(c, p, t) == [k |-> "obj", completion_tokens |-> c,
                      prompt_tokens |-> p, total_tokens |-> t]
UsageNotObj == [k |-> "str", completion_tokens |-> Absent,
                prompt_tokens |-> Absent, total_tokens |-> Absent]

\* Value::get on the usage value: None unless it is an object
UsageGet(u, f) == IF u.k = "obj" THEN u[f] ELSE Absent

Payload(content, model, usage, citations, iterations) ==
    [content |-> content, model |-> model, usage |-> usage,
     citations |-> citations, iterations |-> iterations]

NoPayload == Payload(Absent, Absent, NoUsage, NoCitations, Absent)

PGood == Payload(JStr("answer"), JStr("sonar"),
                 UsageObj(JU64(1), JU64(2), JU64(3)),
                 CitList(<<CitStr("u1")>>), Absent)
PNoContent == Payload(Absent, JStr("sonar"),
                      UsageObj(JU64(4), JU64(5), JU64(9)),
                      NoCitations, Absent)
PPlain == Payload(JStr("plain"), Absent, NoUsage, NoCitations, Absent)

Payloads == {PGood, PNoContent, PPlain}

----------------------------------------------------------------------------
(* Response formatters *)

ErrNoContent == "Failed to extract content from response"

Ok(text) == [st |-> "ok", text |-> text]
Err(msg) == [st |-> "err", text |-> msg]
NoResult == [st |-> "none", text |-> ""]

RECURSIVE RefLines(_, _)
RefLines(cs, i) ==
    IF Len(cs) = 0 THEN <<>>
    ELSE <<"[" \o ToString(i) \o "]: " \o StrOr(Head(cs), "Unknown URL")>>
         \o RefLines(Tail(cs), i + 1)

\* content.unwrap_or_default() instead of ok_or_else(...)?
format_response_with_references_Lenient(p) ==
    IF p.citations.k = "arr" /\ Len(p.citations.items) > 0
    THEN Ok(StrOr(p.content, "") \o "\n\nReferences:\n"
            \o Join(RefLines(p.citations.items, 1), "\n"))
    ELSE Ok(StrOr(p.content, ""))

\* references numbered from 0: i instead of i + 1
format_response_with_references_ZeroBased(p) ==
    IF ~IsStr(p.content) THEN Err(ErrNoContent)
    ELSE IF p.citations.k = "arr" /\ Len(p.citations.items) > 0
         THEN Ok(p.content.s \o "\n\nReferences:\n"
                 \o Join(RefLines(p.citations.items, 0), "\n"))
         ELSE Ok(p.content.s)

format_response_with_references(p) ==
    IF ~IsStr(p.content) THEN Err(ErrNoContent)
    ELSE IF p.citations.k = "arr" /\ Len(p.citations.items) > 0
         THEN Ok(p.content.s \o "\n\nReferences:\n"
                 \o Join(RefLines(p.citations.items, 1), "\n"))
         ELSE Ok(p.content.s)

RECURSIVE StrItems(_)
StrItems(vs) ==
    IF Len(vs) = 0 THEN <<>>
    ELSE (IF IsStr(Head(vs)) THEN <<Head(vs).s>> ELSE <<>>)
         \o StrItems(Tail(vs))

ApaEntry(c, i) ==
    IF IsStr(c.title) /\ IsStr(c.url)
    THEN LET authors == IF c.authors.k = "arr"
                        THEN Join(StrItems(c.authors.items), ", ")
                        ELSE ""
             date == StrOr(c.date, "")
         IN  "[" \o ToString(i) \o "] "
             \o (IF authors # "" THEN authors \o ". " ELSE "")
             \o (IF date # "" THEN "(" \o date \o "). " ELSE "")
             \o " (" \o StrOr(c.publisher, "") \o "). *"
             \o c.title.s \o "*. " \o c.url.s \o "\n\n"
    ELSE "[" \o ToString(i) \o "] " \o StrOr(c, "Unknown source") \o "\n\n"

RECURSIVE ApaRefs(_, _)
ApaRefs(cs, i) ==
    IF Len(cs) = 0 THEN ""
    ELSE ApaEntry(Head(cs), i) \o ApaRefs(Tail(cs), i + 1)

RECURSIVE SourceLines(_, _)
SourceLines(cs, i) ==
    IF Len(cs) = 0 THEN ""
    ELSE "[" \o ToString(i) \o "]: " \o StrOr(Head(cs), "Unknown URL") \o "\n"
         \o SourceLines(Tail(cs), i + 1)

\* the table counting the structured entries only
SourceAssessment_CountsRecords(p) ==
    "\n## Source Assessment\n\n"
    \o "| Category | Metrics |\n"
    \o "|----------|--------|\n"
    \o "| Total Sources | "
    \o ToString(Cardinality({i \in 1..Len(p.citations.items) :
                               p.citations.items[i].k = "obj"})) \o " |\n"
    \o (IF IsI64(p.iterations)
        THEN "| Search Iterations | " \o ToString(p.iterations.n) \o " |\n"
        ELSE "")

\* as_u64 instead of as_i64
SourceAssessment_AsU64(p) ==
    "\n## Source Assessment\n\n"
    \o "| Category | Metrics |\n"
    \o "|----------|--------|\n"
    \o "| Total Sources | " \o ToString(Len(p.citations.items)) \o " |\n"
    \o (IF IsU64(p.iterations)
        THEN "| Search Iterations | " \o ToString(p.iterations.n) \o " |\n"
        ELSE "")

SourceAssessment(p) ==
    "\n## Source Assessment\n\n"
    \o "| Category | Metrics |\n"
    \o "|----------|--------|\n"
    \o "| Total Sources | " \o ToString(Len(p.citations.items)) \o " |\n"
    \o (IF IsI64(p.iterations)
        THEN "| Search Iterations | " \o ToString(p.iterations.n) \o " |\n"
        ELSE "")

\* without the !citations.is_empty() test
format_deep_research_response_EmptySection(p, citation_style) ==
    IF ~IsStr(p.content) THEN Err(ErrNoContent)
    ELSE IF p.citations.k = "arr"
         THEN LET refs == IF citation_style = "apa"
                          THEN "\n\n## References\n\n"
                               \o ApaRefs(p.citations.items, 1)
                          ELSE "\n\n## Sources\n\n"
                               \o SourceLines(p.citations.items, 1)
              IN  Ok(p.content.s \o "\n" \o refs \o SourceAssessment(p))
         ELSE Ok(p.content.s)

\* the flat list for mla, chicago and ieee only, apa for anything else
format_deep_research_response_ApaDefault(p, citation_style) ==
    IF ~IsStr(p.content) THEN Err(ErrNoContent)
    ELSE IF p.citations.k = "arr" /\ Len(p.citations.items) > 0
         THEN LET refs == IF citation_style \notin {"mla", "chicago", "ieee"}
                          THEN "\n\n## References\n\n"
                               \o ApaRefs(p.citations.items, 1)
                          ELSE "\n\n## Sources\n\n"
                               \o SourceLines(p.citations.items, 1)
              IN  Ok(p.content.s \o "\n" \o refs \o SourceAssessment(p))
         ELSE Ok(p.content.s)

format_deep_research_response(p, citation_style) ==
    IF ~IsStr(p.content) THEN Err(ErrNoContent)
    ELSE IF p.citations.k = "arr" /\ Len(p.citations.items) > 0
         THEN LET refs == IF citation_style = "apa"
                          THEN "\n\n## References\n\n"
                               \o ApaRefs(p.citations.items, 1)
                          ELSE "\n\n## Sources\n\n"
                               \o SourceLines(p.citations.items, 1)
              IN  Ok(p.content.s \o "\n" \o refs \o SourceAssessment(p))
         ELSE Ok(p.content.s)

----------------------------------------------------------------------------
(* Tool variants, their arguments and prompts *)

GatewayTools == {"search", "get_documentation", "find_apis",
                 "check_deprecated_code"}
Tools == GatewayTools \cup {"deep_research"}

\* the key execute() requires
Required(tool) ==
    CASE tool = "search" -> "query"
      [] tool = "get_documentation" -> "query"
      [] tool = "find_apis" -> "requirement"
      [] tool = "check_deprecated_code" -> "code"
      [] tool = "deep_research" -> "topic"

\* the message of the error raised when the key is missing or not a string
MissingMsg(tool) ==
    CASE tool = "search" -> "Missing or invalid query"
      [] tool = "get_documentation" -> "Missing or invalid query"
      [] tool = "find_apis" -> "Missing or invalid requirement"
      [] tool = "check_deprecated_code" -> "Missing or invalid code"
      [] tool = "deep_research" -> "Missing or invalid research topic"

ErrNoArgs == "Missing arguments"
ErrNoKey == "PERPLEXITY_API_KEY not set in environment"
ErrTransport == "http send failed"
ErrParse == "response body is not JSON"
ErrCache == "similarity cache failed"

\* arguments: Option<Value>; present = FALSE is None
EmptyArgs ==
    [present |-> TRUE, query |-> Absent, detail_level |-> Absent,
     search_recency_filter |-> Absent, context |-> Absent,
     requirement |-> Absent, code |-> Absent, technology |-> Absent,
     topic |-> Absent, depth |-> Absent, focus |-> Absent,
     time_constraint |-> Absent, citation_style |-> Absent]
NoArgs == [EmptyArgs EXCEPT !.present = FALSE]

SearchPrompt(args) ==
    LET query == args.query.s
        detail_level == StrOr(args.detail_level, "normal")
    IN  CASE detail_level = "brief" ->
               "Provide a brief, concise answer to: " \o query
          [] detail_level = "detailed" ->
               "Provide a comprehensive, detailed analysis of: " \o query
               \o ". Include relevant examples, context, and supporting information where applicable."
          [] OTHER ->
               "Provide a clear, balanced answer to: " \o query
               \o ". Include key points and relevant context."

GetDocumentationPrompt(args) ==
    LET context == StrOr(args.context, "")
    IN  "Provide comprehensive documentation and usage examples for "
        \o args.query.s \o ". "
        \o (IF context # "" THEN "Focus on: " \o context \o ". " ELSE "")
        \o " Include:\n1. Basic overview and purpose\n2. Key features and capabilities\n3. Installation/setup if applicable\n4. Common usage examples\n5. Best practices\n6. Common pitfalls to avoid\n7. Links to official documentation if available"

FindApisPrompt(args) ==
    LET context == StrOr(args.context, "")
    IN  "Find and evaluate APIs that could be used for: "
        \o args.requirement.s \o ". "
        \o (IF context # "" THEN "Context: " \o context \o ". " ELSE "")
        \o " For each API, provide:\n1. Name and brief description\n2. Key features and capabilities\n3. Pricing model (if available)\n4. Integration complexity\n5. Documentation quality\n6. Community support and popularity\n7. Any potential limitations or concerns\n8. Code example of basic usage"

CheckDeprecatedCodePrompt(args) ==
    LET technology == StrOr(args.technology, "")
    IN  "Analyze this code for deprecated features or patterns"
        \o (IF technology # "" THEN " in " \o technology ELSE "")
        \o ":\n\n" \o args.code.s
        \o "\n\nPlease provide:\n1. Identification of any deprecated features, methods, or patterns\n2. Current recommended alternatives\n3. Migration steps if applicable\n4. Impact of the deprecation\n5. Timeline of deprecation if known\n6. Code examples showing how to update to current best practices"

\* depth falling back to "brief"
DeepResearchPrompt_BriefDefault(args) ==
    LET depth == StrOr(args.depth, "brief")
        focus == StrOr(args.focus, "")
        time_constraint == StrOr(args.time_constraint, "")
        citation_style == StrOr(args.citation_style, "apa")
    IN  "Conduct a deep research investigation on: " \o args.topic.s
        \o "\n\nPlease approach this as an expert researcher would, conducting multiple searches and analyzing diverse sources to provide comprehensive information. Your research should be "
        \o depth
        \o (IF focus # "" THEN ", focused on " \o focus ELSE "")
        \o (IF time_constraint # ""
            THEN ". Consider the time period: " \o time_constraint ELSE "")
        \o "\n\nWhen preparing your report:\n1. Start with an executive summary of key findings\n2. Organize information in a logical structure with headings and subheadings\n3. Include critical analysis and multiple perspectives\n4. Cite all sources using "
        \o citation_style
        \o " format\n5. Prioritize recent, peer-reviewed, and authoritative sources\n6. Identify any gaps in existing research\n7. Conclude with practical implications and future directions"

DeepResearchPrompt(args) ==
    LET depth == StrOr(args.depth, "comprehensive")
        focus == StrOr(args.focus, "")
        time_constraint == StrOr(args.time_constraint, "")
        citation_style == StrOr(args.citation_style, "apa")
    IN  "Conduct a deep research investigation on: " \o args.topic.s
        \o "\n\nPlease approach this as an expert researcher would, conducting multiple searches and analyzing diverse sources to provide comprehensive information. Your research should be "
        \o depth
        \o (IF focus # "" THEN ", focused on " \o focus ELSE "")
        \o (IF time_constraint # ""
            THEN ". Consider the time period: " \o time_constraint ELSE "")
        \o "\n\nWhen preparing your report:\n1. Start with an executive summary of key findings\n2. Organize information in a logical structure with headings and subheadings\n3. Include critical analysis and multiple perspectives\n4. Cite all sources using "
        \o citation_style
        \o " format\n5. Prioritize recent, peer-reviewed, and authoritative sources\n6. Identify any gaps in existing research\n7. Conclude with practical implications and future directions"

Prompt(tool, args) ==
    CASE tool = "search" -> SearchPrompt(args)
      [] tool = "get_documentation" -> GetDocumentationPrompt(args)
      [] tool = "find_apis" -> FindApisPrompt(args)
      [] tool = "check_deprecated_code" -> CheckDeprecatedCodePrompt(args)
      [] tool = "deep_research" -> DeepResearchPrompt(args)

\* json!([{"role": "user", "content": prompt}])
UserMessages(prompt) == <<[role |-> "user", content |-> prompt]>>

DeepResearchSystem == "You are a Deep Research agent capable of conducting comprehensive research by performing multiple searches. Your goal is to create an in-depth report that combines information from hundreds of sources, analyzes contradictions, and presents a complete picture of the topic."

DeepResearchMessages(prompt) ==
    <<[role |-> "system", content |-> DeepResearchSystem],
      [role |-> "user", content |-> prompt]>>

\* Option<&str> passed as search_recency_filter: only Search passes one
RecencyFilter(tool, args) ==
    IF tool = "search" /\ IsStr(args.search_recency_filter)
    THEN args.search_recency_filter ELSE JNull

----------------------------------------------------------------------------
(* The API gateway's cache query and request body *)

\* score > 0.95, scores in hundredths
Threshold == 95
Scores == {80, 95, 97}

\* format!("{:?}", messages)
RECURSIVE DebugItems(_)
DebugItems(ms) ==
    IF Len(ms) = 0 THEN <<>>
    ELSE <<"Object {\"content\": String(\"" \o Head(ms).content
           \o "\"), \"role\": String(\"" \o Head(ms).role \o "\")}">>
         \o DebugItems(Tail(ms))

DebugFmt(ms) == "Array [" \o Join(DebugItems(ms), ", ") \o "]"

GatewayModel == "sonar-reasoning-pro"
DeepResearchModel == "sonar-deep-research"

\* the CacheQuery built at the top of call_perplexity_api
Candidate(model, messages, filter) ==
    [action |-> "perplexity_api_call",
     text |-> DebugFmt(messages),
     params |-> [model |-> model, search_recency_filter |-> filter],
     embedding |-> <<0>>,
     results |-> NoPayload]

Body(model, messages, filter, temperature, max_tokens, search_iterations) ==
    [model |-> model, messages |-> messages, search_recency_filter |-> filter,
     temperature |-> temperature, max_tokens |-> max_tokens,
     search_iterations |-> search_iterations]

GatewayBody(model, messages, filter) ==
    Body(model, messages, IF IsStr(filter) THEN filter ELSE Absent,
         Absent, Absent, Absent)

\* str::contains
Contains(text, word) ==
    \E i \in 1..Len(text) : \E j \in i..Len(text) :
        SubSeq(text, i, j) = word


\* the test for "year" made first
DeepResearchBody_YearFirst(args) ==
    LET time_constraint == StrOr(args.time_constraint, "")
        filter ==
            IF Contains(time_constraint, "year") THEN JStr("month")
            ELSE IF Contains(time_constraint, "recent")
                    \/ Contains(time_constraint, "latest") THEN JStr("week")
            ELSE Absent
    IN  Body(DeepResearchModel,
             DeepResearchMessages(DeepResearchPrompt(args)),
             filter, JStr("0.2"), JU64(4000), JU64(10))

\* the request body DeepResearchTool::execute builds, recency heuristic included
DeepResearchBody(args) ==
    LET time_constraint == StrOr(args.time_constraint, "")
        filter ==
            IF Contains(time_constraint, "recent")
               \/ Contains(time_constraint, "latest") THEN JStr("week")
            ELSE IF Contains(time_constraint, "year") THEN JStr("month")
            ELSE Absent
    IN  Body(DeepResearchModel,
             DeepResearchMessages(DeepResearchPrompt(args)),
             filter, JStr("0.2"), JU64(4000), JU64(10))

----------------------------------------------------------------------------
(* Usage reporting *)

\* the pattern without the total_tokens binding
UsageAvailable_NoTotal(p) ==
    /\ p.usage.k # "absent"
    /\ IsStr(p.model)
    /\ IsU64(UsageGet(p.usage, "completion_tokens"))
    /\ IsU64(UsageGet(p.usage, "prompt_tokens"))

\* the two nested if-let patterns in front of usage_reporter.report
UsageAvailable(p) ==
    /\ p.usage.k # "absent"
    /\ IsStr(p.model)
    /\ IsU64(UsageGet(p.usage, "completion_tokens"))
    /\ IsU64(UsageGet(p.usage, "prompt_tokens"))
    /\ IsU64(UsageGet(p.usage, "total_tokens"))

UsageReport(p, ret) ==
    [model |-> p.model.s,
     completion_tokens |-> UsageGet(p.usage, "completion_tokens").n,
     prompt_tokens |-> UsageGet(p.usage, "prompt_tokens").n,
     total_tokens |-> UsageGet(p.usage, "total_tokens").n,
     ret |-> ret]

----------------------------------------------------------------------------
(* Tool invocations *)

GwNone == [st |-> "none", val |-> NoPayload, err |-> ""]
GwOk(p) == [st |-> "ok", val |-> p, err |-> ""]
GwErr(msg) == [st |-> "err", val |-> NoPayload, err |-> msg]

\* a return value of similarities(): Result<Vec<Similarity>>
SimOk(list) == [st |-> "ok", list |-> list]
SimErr == [st |-> "err", list |-> <<>>]

\* what an invocation keeps of that return value: whether it was Ok, the
\* length of the list and similarities.first()
NoSimilarity == [query |-> Candidate("", <<>>, JNull), score |-> 0]
SimNone == [st |-> "none", len |-> 0, first |-> NoSimilarity]
SimSeen(ret) ==
    [st |-> ret.st, len |-> Len(ret.list),
     first |-> IF Len(ret.list) > 0 THEN ret.list[1] ELSE NoSimilarity]

\* an invocation that has made no call to any collaborator yet.
\*   pc          where the task is: an await point, or done / cancelled
\*   simCalls    the candidates passed to similarities()
\*   simRet      what similarities() returned
\*   key         what env::var("PERPLEXITY_API_KEY") returned
\*   httpCalls   the request bodies handed to HttpClient::send
\*   resp/parsed response_json, once response.json() has returned Ok
\*   storeCalls  the entries passed to store(); storeRet what it returned
\*   reports     the UsageReports passed to report(), with what it returned
\*   gw          the return value of call_perplexity_api
\*   result      the return value of execute()
\*   at          the await point at which the task was dropped
\*   cache0      the cache contents when execute() was entered
\*   afterKeyFailure  the previous execute() of this slot failed for want of
\*                    the credential
NewInv(tool, args, c, akf) ==
    [pc |-> "idle", tool |-> tool, args |-> args,
     simCalls |-> <<>>, simRet |-> SimNone, key |-> "unread",
     httpCalls |-> <<>>, resp |-> NoPayload, parsed |-> FALSE,
     storeCalls |-> <<>>, storeRet |-> "none", reports |-> <<>>,
     gw |-> GwNone, result |-> NoResult, at |-> "none", cache0 |-> c,
     afterKeyFailure |-> akf]

AwaitPoints == {"similarities", "send", "json", "store"}
Finished == {"idle", "done", "cancelled"}

\* execute() returns the error msg
Fail(r, msg) == [r EXCEPT !.pc = "done", !.result = Err(msg)]

\* call_perplexity_api returns the error msg, which execute() propagates
GwFail(r, msg) ==
    [r EXCEPT !.pc = "done", !.gw = GwErr(msg), !.result = Err(msg)]

\* report(...)? instead of let _ =
AfterGateway_FailOnReport(r, p, reportRet) ==
    IF UsageAvailable(p) /\ reportRet = "err"
    THEN [r EXCEPT !.pc = "done", !.gw = GwOk(p),
                   !.reports = <<UsageReport(p, reportRet)>>,
                   !.result = Err("usage report failed")]
    ELSE [r EXCEPT !.pc = "done", !.gw = GwOk(p),
                   !.reports = IF UsageAvailable(p)
                               THEN <<UsageReport(p, reportRet)>> ELSE <<>>,
                   !.result = format_response_with_references(p)]

\* the rest of a gateway tool's execute() once the gateway has returned p:
\* report usage if available, format, return
AfterGateway(r, p, reportRet) ==
    [r EXCEPT !.pc = "done",
              !.gw = GwOk(p),
              !.reports = IF UsageAvailable(p)
                          THEN <<UsageReport(p, reportRet)>> ELSE <<>>,
              !.result = format_response_with_references(p)]

\* execute() checking only that the required key is present, not its type
Begin_AnyType(r) ==
    IF ~r.args.present THEN Fail(r, ErrNoArgs)
    ELSE IF r.args[Required(r.tool)].k = "absent"
    THEN Fail(r, MissingMsg(r.tool))
    ELSE IF r.tool \in GatewayTools
    THEN [r EXCEPT !.pc = "similarities",
                   !.simCalls = <<Candidate(GatewayModel,
                                   UserMessages(Prompt(r.tool, r.args)),
                                   RecencyFilter(r.tool, r.args))>>]
    ELSE IF ~cred THEN Fail([r EXCEPT !.key = "unset"], ErrNoKey)
    ELSE [r EXCEPT !.pc = "send", !.key = "set",
                   !.httpCalls = <<DeepResearchBody(r.args)>>]

\* execute() up to its first await
Begin(r) ==
    IF ~r.args.present THEN Fail(r, ErrNoArgs)
    ELSE IF ~IsStr(r.args[Required(r.tool)]) THEN Fail(r, MissingMsg(r.tool))
    ELSE IF r.tool \in GatewayTools
    THEN [r EXCEPT !.pc = "similarities",
                   !.simCalls = <<Candidate(GatewayModel,
                                   UserMessages(Prompt(r.tool, r.args)),
                                   RecencyFilter(r.tool, r.args))>>]
    ELSE IF ~cred THEN Fail([r EXCEPT !.key = "unset"], ErrNoKey)
    ELSE [r EXCEPT !.pc = "send", !.key = "set",
                   !.httpCalls = <<DeepResearchBody(r.args)>>]

Execute(t, tool, args) ==
    /\ inv[t].pc \in Finished
    /\ ncalls < MaxCalls
    /\ inv' = [inv EXCEPT ![t] =
                 Begin(NewInv(tool, args, cache,
                              inv[t].pc = "done"
                              /\ inv[t].result = Err(ErrNoKey)))]
    /\ ncalls' = ncalls + 1
    /\ UNCHANGED <<cache, cacheKind, cred>>

\* what report() may return
ReportReturns == {"ok", "err"}

\* what similarities() may return
SimLists ==
    UNION {[1..n -> [query : cache, score : Scores]] : n \in 0..MaxSims}

SimReturns ==
    IF cacheKind = "passthrough" THEN {SimOk(<<>>)}
    ELSE {SimErr} \cup {SimOk(l) : l \in SimLists}

\* the gateway never taking the cached result
AfterSimilarities_IgnoreHit(r, ret, reportRet) ==
    LET r1 == [r EXCEPT !.simRet = SimSeen(ret)]
    IN  IF ret.st = "err" THEN GwFail(r1, ErrCache)
        ELSE IF ~cred THEN GwFail([r1 EXCEPT !.key = "unset"], ErrNoKey)
        ELSE [r1 EXCEPT !.pc = "send", !.key = "set",
                        !.httpCalls = <<GatewayBody(GatewayModel,
                                         UserMessages(Prompt(r.tool, r.args)),
                                         RecencyFilter(r.tool, r.args))>>]

\* the gateway with score >= 0.95 as the hit test
AfterSimilarities_AtLeast(r, ret, reportRet) ==
    LET r1 == [r EXCEPT !.simRet = SimSeen(ret)]
    IN  IF ret.st = "err" THEN GwFail(r1, ErrCache)
        ELSE IF Len(ret.list) > 0 /\ ret.list[1].score >= Threshold
        THEN AfterGateway(r1, ret.list[1].query.results, reportRet)
        ELSE IF ~cred THEN GwFail([r1 EXCEPT !.key = "unset"], ErrNoKey)
        ELSE [r1 EXCEPT !.pc = "send", !.key = "set",
                        !.httpCalls = <<GatewayBody(GatewayModel,
                                         UserMessages(Prompt(r.tool, r.args)),
                                         RecencyFilter(r.tool, r.args))>>]

\* the gateway sending with an empty key instead of failing
AfterSimilarities_EmptyKey(r, ret, reportRet) ==
    LET r1 == [r EXCEPT !.simRet = SimSeen(ret)]
    IN  IF ret.st = "err" THEN GwFail(r1, ErrCache)
        ELSE IF Len(ret.list) > 0 /\ ret.list[1].score > Threshold
        THEN AfterGateway(r1, ret.list[1].query.results, reportRet)
        ELSE [r1 EXCEPT !.pc = "send",
                        !.key = IF cred THEN "set" ELSE "unset",
                        !.httpCalls = <<GatewayBody(GatewayModel,
                                         UserMessages(Prompt(r.tool, r.args)),
                                         RecencyFilter(r.tool, r.args))>>]

\* the request body built without its search_recency_filter
AfterSimilarities_NoFilter(r, ret, reportRet) ==
    LET r1 == [r EXCEPT !.simRet = SimSeen(ret)]
    IN  IF ret.st = "err" THEN GwFail(r1, ErrCache)
        ELSE IF Len(ret.list) > 0 /\ ret.list[1].score > Threshold
        THEN AfterGateway(r1, ret.list[1].query.results, reportRet)
        ELSE IF ~cred THEN GwFail([r1 EXCEPT !.key = "unset"], ErrNoKey)
        ELSE [r1 EXCEPT !.pc = "send", !.key = "set",
                        !.httpCalls = <<GatewayBody(GatewayModel,
                                         UserMessages(Prompt(r.tool, r.args)),
                                         JNull)>>]

\* the gateway looking through the whole list for an entry above the threshold
AfterSimilarities_AnyHit(r, ret, reportRet) ==
    LET r1 == [r EXCEPT !.simRet = SimSeen(ret)]
        hits == {i \in 1..Len(ret.list) : ret.list[i].score > Threshold}
    IN  IF ret.st = "err" THEN GwFail(r1, ErrCache)
        ELSE IF hits # {}
        THEN AfterGateway(r1, ret.list[CHOOSE i \in hits :
                                         \A j \in hits : i <= j].query.results,
                          reportRet)
        ELSE IF ~cred THEN GwFail([r1 EXCEPT !.key = "unset"], ErrNoKey)
        ELSE [r1 EXCEPT !.pc = "send", !.key = "set",
                        !.httpCalls = <<GatewayBody(GatewayModel,
                                         UserMessages(Prompt(r.tool, r.args)),
                                         RecencyFilter(r.tool, r.args))>>]

\* the credential read before the list is looked at
AfterSimilarities_KeyFirst(r, ret, reportRet) ==
    LET r1 == [r EXCEPT !.simRet = SimSeen(ret)]
    IN  IF ret.st = "err" THEN GwFail(r1, ErrCache)
        ELSE IF ~cred THEN GwFail([r1 EXCEPT !.key = "unset"], ErrNoKey)
        ELSE IF Len(ret.list) > 0 /\ ret.list[1].score > Threshold
        THEN AfterGateway([r1 EXCEPT !.key = "set"],
                          ret.list[1].query.results, reportRet)
        ELSE [r1 EXCEPT !.pc = "send", !.key = "set",
                        !.httpCalls = <<GatewayBody(GatewayModel,
                                         UserMessages(Prompt(r.tool, r.args)),
                                         RecencyFilter(r.tool, r.args))>>]

\* usage reported only for a payload that came from the remote API
AfterSimilarities_SilentHit(r, ret, reportRet) ==
    LET r1 == [r EXCEPT !.simRet = SimSeen(ret)]
    IN  IF ret.st = "err" THEN GwFail(r1, ErrCache)
        ELSE IF Len(ret.list) > 0 /\ ret.list[1].score > Threshold
        THEN [r1 EXCEPT !.pc = "done",
                        !.gw = GwOk(ret.list[1].query.results),
                        !.result = format_response_with_references(
                                       ret.list[1].query.results)]
        ELSE IF ~cred THEN GwFail([r1 EXCEPT !.key = "unset"], ErrNoKey)
        ELSE [r1 EXCEPT !.pc = "send", !.key = "set",
                        !.httpCalls = <<GatewayBody(GatewayModel,
                                         UserMessages(Prompt(r.tool, r.args)),
                                         RecencyFilter(r.tool, r.args))>>]

\* a hit only on an entry stored for the same action, params and text
AfterSimilarities_SameQuery(r, ret, reportRet) ==
    LET r1 == [r EXCEPT !.simRet = SimSeen(ret)]
    IN  IF ret.st = "err" THEN GwFail(r1, ErrCache)
        ELSE IF /\ Len(ret.list) > 0
                /\ ret.list[1].score > Threshold
                /\ ret.list[1].query.action = r.simCalls[1].action
                /\ ret.list[1].query.params = r.simCalls[1].params
                /\ ret.list[1].query.text = r.simCalls[1].text
        THEN AfterGateway(r1, ret.list[1].query.results, reportRet)
        ELSE IF ~cred THEN GwFail([r1 EXCEPT !.key = "unset"], ErrNoKey)
        ELSE [r1 EXCEPT !.pc = "send", !.key = "set",
                        !.httpCalls = <<GatewayBody(GatewayModel,
                                         UserMessages(Prompt(r.tool, r.args)),
                                         RecencyFilter(r.tool, r.args))>>]

\* call_perplexity_api from the return of similarities() to its next await
AfterSimilarities(r, ret, reportRet) ==
    LET r1 == [r EXCEPT !.simRet = SimSeen(ret)]
    IN  IF ret.st = "err" THEN GwFail(r1, ErrCache)
        ELSE IF Len(ret.list) > 0 /\ ret.list[1].score > Threshold
        THEN AfterGateway(r1, ret.list[1].query.results, reportRet)
        ELSE IF ~cred THEN GwFail([r1 EXCEPT !.key = "unset"], ErrNoKey)
        ELSE [r1 EXCEPT !.pc = "send", !.key = "set",
                        !.httpCalls = <<GatewayBody(GatewayModel,
                                         UserMessages(Prompt(r.tool, r.args)),
                                         RecencyFilter(r.tool, r.args))>>]

SimilaritiesReturn(t) ==
    /\ inv[t].pc = "similarities"
    /\ \E ret \in SimReturns, reportRet \in ReportReturns :
          inv' = [inv EXCEPT ![t] = AfterSimilarities(@, ret, reportRet)]
    /\ UNCHANGED <<cache, cacheKind, cred, ncalls>>

\* the request sent once more after a transport failure
HttpReturn_Retry(t, ok) ==
    /\ inv[t].pc = "send"
    /\ inv' = [inv EXCEPT ![t] =
                 IF ~ok
                 THEN IF Len(@.httpCalls) < 2
                      THEN [@ EXCEPT !.httpCalls = Append(@, @[1])]
                      ELSE IF @.tool \in GatewayTools
                      THEN GwFail(@, ErrTransport) ELSE Fail(@, ErrTransport)
                 ELSE [@ EXCEPT !.pc = "json"]]
    /\ UNCHANGED <<cache, cacheKind, cred, ncalls>>

\* http_client.send(...).await? returns
HttpReturn(t, ok) ==
    /\ inv[t].pc = "send"
    /\ inv' = [inv EXCEPT ![t] =
                 IF ~ok
                 THEN IF @.tool \in GatewayTools
                      THEN GwFail(@, ErrTransport) ELSE Fail(@, ErrTransport)
                 ELSE [@ EXCEPT !.pc = "json"]]
    /\ UNCHANGED <<cache, cacheKind, cred, ncalls>>

\* the gateway storing whatever it has when the body does not parse
AfterJson_StoreAnyway(r, ok, p) ==
    IF r.tool \in GatewayTools
    THEN [r EXCEPT !.pc = "store", !.resp = IF ok THEN p ELSE NoPayload,
                   !.parsed = ok,
                   !.storeCalls = <<[r.simCalls[1] EXCEPT
                                       !.results = IF ok THEN p ELSE NoPayload]>>]
    ELSE IF ~ok THEN Fail(r, ErrParse)
    ELSE [r EXCEPT !.pc = "done", !.resp = p, !.parsed = TRUE,
                   !.result = format_deep_research_response(
                                  p, StrOr(r.args.citation_style, "apa"))]

\* the cache query kept in one place shared by all calls in flight, so that
\* the entry stored is built from the query of the call that began last
AfterJson_SharedQuery(r, ok, p) ==
    IF ~ok
    THEN IF r.tool \in GatewayTools
         THEN GwFail(r, ErrParse) ELSE Fail(r, ErrParse)
    ELSE IF r.tool \in GatewayTools
    THEN LET last == CHOOSE t \in DOMAIN inv :
                        /\ inv[t].simCalls # <<>>
                        /\ \A u \in DOMAIN inv :
                              inv[u].simCalls # <<>> => u <= t
         IN  [r EXCEPT !.pc = "store", !.resp = p, !.parsed = TRUE,
                       !.storeCalls =
                           <<[inv[last].simCalls[1] EXCEPT !.results = p]>>]
    ELSE [r EXCEPT !.pc = "done", !.resp = p, !.parsed = TRUE,
                   !.result = format_deep_research_response(
                                  p, StrOr(r.args.citation_style, "apa"))]

\* the gateway storing a response only if it has its content string
AfterJson_CheckContent(r, ok, p) ==
    IF ~ok
    THEN IF r.tool \in GatewayTools
         THEN GwFail(r, ErrParse) ELSE Fail(r, ErrParse)
    ELSE IF r.tool \in GatewayTools
    THEN IF IsStr(p.content)
         THEN [r EXCEPT !.pc = "store", !.resp = p, !.parsed = TRUE,
                        !.storeCalls = <<[r.simCalls[1] EXCEPT !.results = p]>>]
         ELSE AfterGateway([r EXCEPT !.resp = p, !.parsed = TRUE], p, "ok")
    ELSE [r EXCEPT !.pc = "done", !.resp = p, !.parsed = TRUE,
                   !.result = format_deep_research_response(
                                  p, StrOr(r.args.citation_style, "apa"))]

\* from the return of response.json() to the next await or the return
AfterJson(r, ok, p) ==
    IF ~ok
    THEN IF r.tool \in GatewayTools
         THEN GwFail(r, ErrParse) ELSE Fail(r, ErrParse)
    ELSE IF r.tool \in GatewayTools
    THEN [r EXCEPT !.pc = "store", !.resp = p, !.parsed = TRUE,
                   !.storeCalls = <<[r.simCalls[1] EXCEPT !.results = p]>>]
    ELSE [r EXCEPT !.pc = "done", !.resp = p, !.parsed = TRUE,
                   !.result = format_deep_research_response(
                                  p, StrOr(r.args.citation_style, "apa"))]

JsonReturn(t, ok, p) ==
    /\ inv[t].pc = "json"
    /\ inv' = [inv EXCEPT ![t] = AfterJson(@, ok, p)]
    /\ UNCHANGED <<cache, cacheKind, cred, ncalls>>

\* store(...).await? instead of let _ =
AfterStore_Propagate(r, ok, reportRet) ==
    IF ok THEN AfterGateway([r EXCEPT !.storeRet = "ok"], r.resp, reportRet)
    ELSE GwFail([r EXCEPT !.storeRet = "err"], ErrCache)

\* call_perplexity_api from the return of store() on: the result of store()
\* is dropped (let _ =) and the response is returned
AfterStore(r, ok, reportRet) ==
    AfterGateway([r EXCEPT !.storeRet = IF ok THEN "ok" ELSE "err"],
                 r.resp, reportRet)

\* store() returns: the passthrough cache keeps nothing and never fails, a
\* backend keeps the entry unless it fails
StoreReturn(t, ok, reportRet) ==
    /\ inv[t].pc = "store"
    /\ cacheKind = "passthrough" => ok
    /\ cache' = IF ok /\ cacheKind # "passthrough"
                THEN cache \cup {inv[t].storeCalls[1]} ELSE cache
    /\ inv' = [inv EXCEPT ![t] = AfterStore(@, ok, reportRet)]
    /\ UNCHANGED <<cacheKind, cred, ncalls>>

\* the task is dropped at an await point; a dropped store() may or may not
\* have reached the backend
Cancel(t, landed) ==
    /\ inv[t].pc \in AwaitPoints
    /\ landed => inv[t].pc = "store" /\ cacheKind # "passthrough"
    /\ cache' = IF landed THEN cache \cup {inv[t].storeCalls[1]} ELSE cache
    /\ inv' = [inv EXCEPT ![t] = [@ EXCEPT !.pc = "cancelled", !.at = inv[t].pc]]
    /\ UNCHANGED <<cacheKind, cred, ncalls>>

\* the environment variable is set or unset between two reads of it
EnvChange ==
    /\ cred' = ~cred
    /\ UNCHANGED <<inv, cache, cacheKind, ncalls>>

----------------------------------------------------------------------------
(* Specification: one request at a time, as the main loop dispatches them *)

SeqTasks == {1}

\* the arguments offered to a tool
ArgsOf(tool) ==
    {NoArgs, EmptyArgs,
     [EmptyArgs EXCEPT ![Required(tool)] = JU64(42)],
     [EmptyArgs EXCEPT ![Required(tool)] = JStr("q1")]}
    \cup (IF tool = "search"
          THEN {[EmptyArgs EXCEPT !.query = JStr("q1"),
                                  !.search_recency_filter = JStr("week")]}
          ELSE {})


InitOver(tasks) ==
    /\ inv = [t \in tasks |-> NewInv("search", NoArgs, {}, FALSE)]
    /\ cache = {}
    /\ cacheKind \in {"passthrough", "backend"}
    /\ cred \in BOOLEAN
    /\ ncalls = 0

Init == InitOver(SeqTasks)

Next ==
    \/ \E t \in SeqTasks, tool \in Tools : \E args \in ArgsOf(tool) :
          Execute(t, tool, args)
    \/ \E t \in SeqTasks : SimilaritiesReturn(t)
    \/ \E t \in SeqTasks, ok \in BOOLEAN : HttpReturn(t, ok)
    \/ \E t \in SeqTasks, ok \in BOOLEAN, p \in Payloads : JsonReturn(t, ok, p)
    \/ \E t \in SeqTasks, ok \in BOOLEAN, rr \in ReportReturns :
          StoreReturn(t, ok, rr)
    \/ \E t \in SeqTasks, landed \in BOOLEAN : Cancel(t, landed)
    \/ EnvChange

Spec == Init /\ [][Next]_vars

----------------------------------------------------------------------------
(* Specification for the usage-report condition: one gateway tool and       *)
(* DeepResearch, with responses that differ in their model and usage fields *)

UsageTools == {"search", "deep_research"}

UsageArgsOf(tool) == {[EmptyArgs EXCEPT ![Required(tool)] = JStr("q1")]}

UsagePayload(model, usage) ==
    Payload(JStr("answer"), model, usage, NoCitations, Absent)

\* well-formed, and every way of being off by one field
UsagePayloads ==
    {UsagePayload(JStr("sonar"), UsageObj(JU64(1), JU64(2), JU64(3)))}
    \cup {UsagePayload(m, UsageObj(JU64(1), JU64(2), JU64(3))) :
            m \in {Absent, JU64(7)}}
    \cup {UsagePayload(JStr("sonar"), u) : u \in {NoUsage, UsageNotObj}}
    \cup {UsagePayload(JStr("sonar"), UsageObj(x, JU64(2), JU64(3))) :
            x \in {Absent, JF64}}
    \cup {UsagePayload(JStr("sonar"), UsageObj(JU64(1), x, JU64(3))) :
            x \in {Absent, JF64}}
    \cup {UsagePayload(JStr("sonar"), UsageObj(JU64(1), JU64(2), x)) :
            x \in {Absent, JF64}}
    \cup {PPlain}

NextUsage ==
    \/ \E t \in SeqTasks, tool \in UsageTools : \E args \in UsageArgsOf(tool) :
          Execute(t, tool, args)
    \/ \E t \in SeqTasks : SimilaritiesReturn(t)
    \/ \E t \in SeqTasks, ok \in BOOLEAN : HttpReturn(t, ok)
    \/ \E t \in SeqTasks, ok \in BOOLEAN, p \in UsagePayloads :
          JsonReturn(t, ok, p)
    \/ \E t \in SeqTasks, ok \in BOOLEAN, rr \in ReportReturns :
          StoreReturn(t, ok, rr)
    \/ \E t \in SeqTasks, landed \in BOOLEAN : Cancel(t, landed)
    \/ EnvChange

SpecUsage == Init /\ [][NextUsage]_vars

----------------------------------------------------------------------------
(* Properties *)

Invs == {inv[t] : t \in DOMAIN inv}

\* similarities() returned Ok and the gateway's hit test is met / not met
IsHit(r) == r.simRet.st = "ok" /\ r.simRet.len > 0
            /\ r.simRet.first.score > Threshold
IsMiss(r) == r.simRet.st = "ok"
             /\ (r.simRet.len = 0 \/ r.simRet.first.score <= Threshold)

\* C1: when the first entry returned by similarities() scores above 0.95,
\* the gateway returns exactly that entry's stored results, and in that call
\* the transport is never invoked and store() is never invoked.
C1_HitReturnsCached ==
    \A r \in Invs :
        IsHit(r) =>
            /\ r.pc = "done"
            /\ r.gw = GwOk(r.simRet.first.query.results)
            /\ r.httpCalls = <<>>
            /\ r.storeCalls = <<>>
            /\ r.storeRet = "none"

C1_Witness ==
    \E r \in Invs :
        /\ IsHit(r)
        /\ r.pc = "done"
        /\ r.gw = GwOk(PGood)
        /\ r.result.st = "ok"

\* C2: when similarities() returns an empty list or a first entry scoring
\* at most 0.95, the gateway goes on to read the credential; with the
\* credential present it sends exactly one request, calls store() only once
\* the response is parsed, and then exactly once, with the candidate's
\* action, text, params and embedding and the response as results.
C2_MissCallsRemoteAndStores ==
    \A r \in Invs :
        IsMiss(r) =>
            /\ r.key # "unread"
            /\ r.key = "set" =>
                 /\ Len(r.httpCalls) = 1
                 /\ ~r.parsed => r.storeCalls = <<>>
                 /\ r.parsed =>
                      /\ Len(r.storeCalls) = 1
                      /\ r.storeCalls[1].results = r.resp
                      /\ r.storeCalls[1].action = r.simCalls[1].action
                      /\ r.storeCalls[1].text = r.simCalls[1].text
                      /\ r.storeCalls[1].params = r.simCalls[1].params
                      /\ r.storeCalls[1].embedding = r.simCalls[1].embedding

C2_Witness ==
    \E r \in Invs :
        /\ r.simRet.st = "ok"
        /\ r.simRet.len > 0
        /\ r.simRet.first.score = Threshold
        /\ r.key = "set"
        /\ r.parsed
        /\ r.pc = "done"
        /\ r.storeRet = "ok"
        /\ r.storeCalls[1] \in cache

\* C3: an error returned by similarities() never fails the tool call: the
\* gateway goes on to the credential and the remote call as on an empty list.
C3_LookupFailureDegrades ==
    \A r \in Invs :
        r.simRet.st = "err" =>
            /\ r.key # "unread"
            /\ r.result # Err(ErrCache)

\* C4: whatever store() returns after a parsed response, the gateway
\* returns that response unchanged and the tool call's result is the
\* formatted response, the same for a failed store() as for a successful one.
C4_StoreFailureIgnored ==
    \A r \in Invs :
        r.storeRet # "none" =>
            /\ r.pc = "done"
            /\ r.gw = GwOk(r.resp)
            /\ r.result = format_response_with_references(r.resp)

C4_Witness ==
    \E r \in Invs :
        /\ r.storeRet = "err"
        /\ r.resp = PGood
        /\ r.result.st = "ok"
        /\ r.storeCalls[1] \notin cache

\* C5: for every tool, execute() with no arguments, or with arguments whose
\* required field is missing or not a string, returns an error without any
\* remote call, cache lookup, cache store or usage report.
C5_InvalidArgsTouchNothing ==
    \A r \in Invs :
        (r.pc # "idle" /\ ~(r.args.present /\ r.args[Required(r.tool)].k = "str")) =>
            /\ r.pc = "done"
            /\ r.result.st = "err"
            /\ r.simCalls = <<>>
            /\ r.httpCalls = <<>>
            /\ r.storeCalls = <<>>
            /\ r.reports = <<>>
            /\ cache = r.cache0

C5_Witness ==
    \E r \in Invs :
        /\ r.tool = "deep_research"
        /\ r.args.present
        /\ r.args.topic.k = "u64"
        /\ r.pc = "done"
        /\ r.result = Err("Missing or invalid research topic")
        /\ cred

\* C6: every request handed to the transport is preceded, in the same
\* invocation, by a similarities() call.
C6_LookupPrecedesSend ==
    \A r \in Invs : Len(r.httpCalls) > 0 => Len(r.simCalls) > 0

\* C7: when the credential is absent on a cache miss, the call fails with
\* the missing-credential error, sends nothing and stores nothing; a call
\* that follows such a failure with the credential present sends its request.
C7_MissingCredentialFailsOnlyThatCall ==
    \A r \in Invs :
        /\ r.key = "unset" =>
             /\ r.pc = "done"
             /\ r.result = Err(ErrNoKey)
             /\ r.tool \in GatewayTools => IsMiss(r) /\ r.gw = GwErr(ErrNoKey)
             /\ r.httpCalls = <<>>
             /\ r.storeCalls = <<>>
             /\ cache = r.cache0
        /\ (r.afterKeyFailure /\ r.key = "set") => Len(r.httpCalls) = 1

C7_Witness ==
    \E r \in Invs :
        /\ r.afterKeyFailure
        /\ r.tool \in GatewayTools
        /\ r.key = "set"
        /\ r.pc = "done"
        /\ r.result.st = "ok"

\* C8: store() is called only with a parsed response: an invocation that
\* ended, or was dropped, without a parsed response has called store() not
\* once and leaves the cache as it was when the invocation began.
C8_NoStoreWithoutResponse ==
    \A r \in Invs :
        /\ Len(r.storeCalls) > 0 => r.parsed
        /\ (r.pc \in {"done", "cancelled"} /\ ~r.parsed) =>
             /\ r.storeCalls = <<>>
             /\ cache = r.cache0

C8_Witness ==
    \E r \in Invs :
        /\ r.pc = "cancelled"
        /\ r.at = "send"
        /\ r.tool \in GatewayTools
        /\ cacheKind = "backend"
        /\ cache # {}

\* C9: a parsed response without a string at choices[0].message.content is
\* returned by the gateway as it is, after the one remote call, and the tool
\* call then fails in the formatter with the extraction error.
C9_MalformedFailsAtFormatting ==
    \A r \in Invs :
        (r.pc = "done" /\ r.parsed /\ r.resp.content.k # "str") =>
            /\ Len(r.httpCalls) = 1
            /\ r.tool \in GatewayTools => r.gw = GwOk(r.resp)
            /\ r.result = Err("Failed to extract content from response")

C9_Witness ==
    \E r \in Invs :
        /\ r.pc = "done"
        /\ r.tool = "search"
        /\ r.parsed
        /\ r.resp = PNoContent
        /\ r.gw = GwOk(PNoContent)
        /\ r.result.st = "err"

\* C10: report() is invoked by a tool call only when the payload the gateway
\* returned holds a string model and a usage object whose completion_tokens,
\* prompt_tokens and total_tokens are all unsigned integers.
C10_ReportOnlyOnWellFormedUsage ==
    \A r \in Invs :
        Len(r.reports) > 0 =>
            /\ r.gw.st = "ok"
            /\ r.gw.val.model.k = "str"
            /\ r.gw.val.usage.k = "obj"
            /\ r.gw.val.usage.completion_tokens.k = "u64"
            /\ r.gw.val.usage.prompt_tokens.k = "u64"
            /\ r.gw.val.usage.total_tokens.k = "u64"

C10_Witness ==
    \E r \in Invs :
        /\ r.pc = "done"
        /\ Len(r.reports) = 1
        /\ r.gw.st = "ok"
        /\ r.gw.val.usage.total_tokens = JU64(3)

\* C11: for every tool, DeepResearch included, a call that completes with a
\* payload holding a string model and the three unsigned token counts has
\* passed exactly one report, with that model and those counts, to report().
C11_EveryCompletedCallReports ==
    \A r \in Invs :
        LET has == IF r.tool \in GatewayTools THEN r.gw.st = "ok" ELSE r.parsed
            p == IF r.tool \in GatewayTools THEN r.gw.val ELSE r.resp
        IN  (/\ r.pc = "done"
             /\ has
             /\ p.model.k = "str"
             /\ p.usage.k = "obj"
             /\ p.usage.completion_tokens.k = "u64"
             /\ p.usage.prompt_tokens.k = "u64"
             /\ p.usage.total_tokens.k = "u64") =>
                /\ Len(r.reports) = 1
                /\ r.reports[1].model = p.model.s
                /\ r.reports[1].completion_tokens = p.usage.completion_tokens.n
                /\ r.reports[1].prompt_tokens = p.usage.prompt_tokens.n
                /\ r.reports[1].total_tokens = p.usage.total_tokens.n

\* C12: when report() returns an error the tool call still ends with the
\* formatted payload as its result, and report() was called once only.
C12_ReportFailureIgnored ==
    \A r \in Invs :
        (Len(r.reports) > 0 /\ r.reports[1].ret = "err") =>
            /\ r.pc = "done"
            /\ Len(r.reports) = 1
            /\ r.result = format_response_with_references(r.gw.val)

C12_Witness ==
    \E r \in Invs :
        /\ Len(r.reports) = 1
        /\ r.reports[1].ret = "err"
        /\ r.gw = GwOk(PGood)
        /\ r.result.st = "ok"

\* C13: for every tool a call whose required argument is missing ends in an
\* error whose text names that field, whether the arguments object lacks the
\* field or no arguments value was supplied at all.
C13_MissingFieldNamed ==
    \A r \in Invs :
        (r.pc = "done" /\ (~r.args.present \/ r.args[Required(r.tool)].k = "absent")) =>
            /\ r.result.st = "err"
            /\ Contains(r.result.text, Required(r.tool))

-----------------------------------------------------------------------------
(* Startup: the tool registry *)

\* ToolRegistry::register: the registry maps a tool's name to its executor;
\* the model keeps the set of names it can list and dispatch
register(registry, name) == registry \cup {name}

\* ContextServerState::new: a default registry and its register() calls
ContextServerState_new ==
    register(register(register(register({}, "search"), "get_documentation"),
                      "find_apis"), "check_deprecated_code")

\* dispatch(name, arguments): the lookup by name succeeds
Dispatchable(name) == name \in ContextServerState_new

\* C16: the registry built at startup holds exactly the five tools search,
\* get_documentation, find_apis, check_deprecated_code and deep_research:
\* it holds no other name, and a call to any of the five tools is a call to
\* a name the registry dispatches.
C16_RegistryHasFiveTools ==
    /\ ContextServerState_new \subseteq
           {"search", "get_documentation", "find_apis",
            "check_deprecated_code", "deep_research"}
    /\ \A r \in Invs : r.pc # "idle" => Dispatchable(r.tool)

-----------------------------------------------------------------------------
(* The four gateway tools with the default collaborators, run side by side *)
(* with the tools of lib.rs, which have no cache and no reporter: slot     *)
(* WithCache holds the former, slot CacheFree the latter, and both are     *)
(* given the same calls, the same environment and the same remote answers. *)

WithCache == 1
CacheFree == 2
PassTasks == {WithCache, CacheFree}

\* lib.rs format_response_with_references
CacheFree_format_response_with_references(p) ==
    IF ~IsStr(p.content) THEN Err(ErrNoContent)
    ELSE IF p.citations.k = "arr" /\ Len(p.citations.items) > 0
         THEN Ok(p.content.s \o "\n\nReferences:\n"
                 \o Join(RefLines(p.citations.items, 1), "\n"))
         ELSE Ok(p.content.s)

\* lib.rs call_perplexity_api: the request body
CacheFreeBody(model, messages, filter) ==
    Body(model, messages, IF IsStr(filter) THEN filter ELSE Absent,
         Absent, Absent, Absent)

\* lib.rs execute() of a gateway tool up to its first await, which is send():
\* arguments, prompt, then the credential
CacheFreeBegin(r) ==
    IF ~r.args.present THEN Fail(r, ErrNoArgs)
    ELSE IF ~IsStr(r.args[Required(r.tool)]) THEN Fail(r, MissingMsg(r.tool))
    ELSE IF ~cred THEN GwFail([r EXCEPT !.key = "unset"], ErrNoKey)
    ELSE [r EXCEPT !.pc = "send", !.key = "set",
                   !.httpCalls = <<CacheFreeBody(GatewayModel,
                                    UserMessages(Prompt(r.tool, r.args)),
                                    RecencyFilter(r.tool, r.args))>>]

\* lib.rs: send(...).await? returns
CacheFreeAfterSend(r, ok) ==
    IF ~ok THEN GwFail(r, ErrTransport) ELSE [r EXCEPT !.pc = "json"]

\* lib.rs: response.json() returns, the gateway returns it and execute()
\* formats it
CacheFreeAfterJson(r, ok, p) ==
    IF ~ok THEN GwFail(r, ErrParse)
    ELSE [r EXCEPT !.pc = "done", !.resp = p, !.parsed = TRUE, !.gw = GwOk(p),
                   !.result = CacheFree_format_response_with_references(p)]

\* NoopUsageReporter::report returns Ok(())
NoopReport == "ok"

\* the same call made to both. The passthrough similarities() is ready when
\* first polled, so the tool runs on to send() without yielding.
PassExecute(tool, args) ==
    /\ \A t \in PassTasks : inv[t].pc \in Finished
    /\ ncalls < MaxCalls
    /\ \E ret \in SimReturns :
         LET fresh(t) == NewInv(tool, args, cache,
                                inv[t].pc = "done"
                                /\ inv[t].result = Err(ErrNoKey))
             b == Begin(fresh(WithCache))
         IN  inv' = [inv EXCEPT
                       ![WithCache] = IF b.pc = "similarities"
                                      THEN AfterSimilarities(b, ret, NoopReport)
                                      ELSE b,
                       ![CacheFree] = CacheFreeBegin(fresh(CacheFree))]
    /\ ncalls' = ncalls + 1
    /\ UNCHANGED <<cache, cacheKind, cred>>

\* the remote end answers, or fails to answer, the request of both
PassHttpReturn(ok) ==
    /\ \E t \in PassTasks : inv[t].pc = "send"
    /\ inv' = [inv EXCEPT
                 ![WithCache] = IF @.pc # "send" THEN @
                                ELSE IF ~ok THEN GwFail(@, ErrTransport)
                                ELSE [@ EXCEPT !.pc = "json"],
                 ![CacheFree] = IF @.pc # "send" THEN @
                                ELSE CacheFreeAfterSend(@, ok)]
    /\ UNCHANGED <<cache, cacheKind, cred, ncalls>>

\* the same body reaches both. The passthrough store() is ready when first
\* polled and returns Ok(()), keeping nothing.
PassJsonReturn(ok, p) ==
    /\ \E t \in PassTasks : inv[t].pc = "json"
    /\ inv' = [inv EXCEPT
                 ![WithCache] = IF @.pc # "json" THEN @
                                ELSE LET j == AfterJson(@, ok, p)
                                     IN  IF j.pc = "store"
                                         THEN AfterStore(j, TRUE, NoopReport)
                                         ELSE j,
                 ![CacheFree] = IF @.pc # "json" THEN @
                                ELSE CacheFreeAfterJson(@, ok, p)]
    /\ UNCHANGED <<cache, cacheKind, cred, ncalls>>

InitPass ==
    /\ InitOver(PassTasks)
    /\ cacheKind = "passthrough"

NextPass ==
    \/ \E tool \in GatewayTools : \E args \in ArgsOf(tool) :
          PassExecute(tool, args)
    \/ \E ok \in BOOLEAN : PassHttpReturn(ok)
    \/ \E ok \in BOOLEAN, p \in Payloads : PassJsonReturn(ok, p)
    \/ EnvChange

SpecPass == InitPass /\ [][NextPass]_vars

\* C14: with the passthrough cache and the no-op reporter each gateway tool
\* sends the same remote requests and returns the same result or error as
\* the tool that has no cache, call after call.
C14_PassthroughIsCacheFree ==
    /\ inv[WithCache].pc = inv[CacheFree].pc
    /\ inv[WithCache].httpCalls = inv[CacheFree].httpCalls
    /\ inv[WithCache].result = inv[CacheFree].result
    /\ cache = {}

C14_Witness ==
    /\ inv[WithCache].pc = "done"
    /\ inv[WithCache].storeCalls # <<>>
    /\ inv[WithCache].reports # <<>>
    /\ inv[WithCache].args.search_recency_filter = JStr("week")
    /\ inv[WithCache].result.st = "ok"
    /\ inv[CacheFree].result = inv[WithCache].result
    /\ Len(inv[CacheFree].httpCalls) = 1

-----------------------------------------------------------------------------
(* Two calls to the same tool in flight at once, with different arguments, *)
(* against one shared cache                                                *)

ConcTasks == {1, 2}
ConcTools == {"search"}

\* the arguments of the two callers differ
ConcArgsOf(t, tool) ==
    IF t = 1
    THEN {[EmptyArgs EXCEPT ![Required(tool)] = JStr("q1")]}
         \cup (IF tool = "search"
               THEN {[EmptyArgs EXCEPT !.query = JStr("q1"),
                                       !.detail_level = JStr("brief")]}
               ELSE {})
    ELSE {[EmptyArgs EXCEPT ![Required(tool)] = JStr("q2")]}

\* the remote API answers the request it was sent
ResponseTo(body) ==
    Payload(JStr("answer to: " \o body.messages[1].content),
            JStr(body.model), UsageObj(JU64(1), JU64(2), JU64(3)),
            NoCitations, Absent)

ConcExecute(t, tool, args) ==
    /\ \A u \in ConcTasks : inv[u].pc \in AwaitPoints => inv[u].tool = tool
    /\ Execute(t, tool, args)

\* response.json() of call t returns the answer to the request call t sent
ConcJsonReturn(t, ok) ==
    /\ inv[t].pc = "json"
    /\ JsonReturn(t, ok, ResponseTo(inv[t].httpCalls[1]))

InitConc == InitOver(ConcTasks)

NextConc ==
    \/ \E t \in ConcTasks, tool \in ConcTools :
          \E args \in ConcArgsOf(t, tool) : ConcExecute(t, tool, args)
    \/ \E t \in ConcTasks : SimilaritiesReturn(t)
    \/ \E t \in ConcTasks, ok \in BOOLEAN : HttpReturn(t, ok)
    \/ \E t \in ConcTasks, ok \in BOOLEAN : ConcJsonReturn(t, ok)
    \/ \E t \in ConcTasks, ok \in BOOLEAN, rr \in ReportReturns :
          StoreReturn(t, ok, rr)

SpecConc == InitConc /\ [][NextConc]_vars

\* the messages and the request body a call builds from its own arguments
OwnMessages(r) == UserMessages(Prompt(r.tool, r.args))
OwnBody(r) == GatewayBody(GatewayModel, OwnMessages(r),
                          RecencyFilter(r.tool, r.args))

\* C15: with two calls to the same tool in flight, every request a call
\* sends carries the prompt built from that call's arguments, and every
\* entry a call passes to store() pairs the text of its own request with
\* the answer to that request.
C15_CallsDoNotMix ==
    \A r \in Invs :
        /\ \A i \in 1..Len(r.httpCalls) : r.httpCalls[i] = OwnBody(r)
        /\ \A i \in 1..Len(r.storeCalls) :
              /\ r.storeCalls[i].text = DebugFmt(OwnMessages(r))
              /\ r.storeCalls[i].results = ResponseTo(OwnBody(r))

C15_Witness ==
    /\ inv[1].pc = "store"
    /\ inv[2].pc = "store"
    /\ inv[1].tool = inv[2].tool
    /\ inv[1].args # inv[2].args
    /\ inv[1].storeCalls[1].results # inv[2].storeCalls[1].results

-----------------------------------------------------------------------------
(* Specification for the formatters: one gateway tool and DeepResearch,    *)
(* with responses that differ in their citations                           *)

MaxCites == 2

FmtTools == {"search", "deep_research"}

FmtArgsOf(tool) ==
    IF tool = "deep_research"
    THEN {[EmptyArgs EXCEPT !.topic = JStr("q1"), !.citation_style = s] :
            s \in {Absent, JStr("apa"), JStr("mla")}}
    ELSE {[EmptyArgs EXCEPT ![Required(tool)] = JStr("q1")]}

\* a bare URL, and structured records with and without their optional
\* fields, their url and their title
FmtCitations ==
    {CitStr("u2"),
     CitObj(JStr("T1"), JStr("u1"), Authors(<<JStr("A"), JStr("B")>>), JStr("2020"),
            JStr("P")),
     CitObj(JStr("T1"), JStr("u1"), Authors(<<JStr("A")>>), JStr("2020"), Absent),
     CitObj(JStr("T1"), JStr("u1"), NoAuthors, Absent, JStr("P")),
     CitObj(JStr("T1"), JStr("u1"), NoAuthors, Absent, Absent),
     CitObj(JStr("T1"), Absent, NoAuthors, Absent, Absent)}

FmtLists == UNION {[1..n -> FmtCitations] : n \in 1..MaxCites}

FmtPayloads ==
    {Payload(JStr("answer"), Absent, NoUsage, c, it) :
        c \in {NoCitations, CitNotList, CitList(<<>>)}
              \cup {CitList(l) : l \in FmtLists},
        it \in {Absent, JU64(3)}}
    \cup {PNoContent}

InitFmt ==
    /\ InitOver(SeqTasks)
    /\ cacheKind = "passthrough"
    /\ cred

NextFmt ==
    \/ \E t \in SeqTasks, tool \in FmtTools : \E args \in FmtArgsOf(tool) :
          Execute(t, tool, args)
    \/ \E t \in SeqTasks : SimilaritiesReturn(t)
    \/ \E t \in SeqTasks, ok \in BOOLEAN : HttpReturn(t, ok)
    \/ \E t \in SeqTasks, ok \in BOOLEAN, p \in FmtPayloads :
          JsonReturn(t, ok, p)
    \/ \E t \in SeqTasks, ok \in BOOLEAN, rr \in ReportReturns :
          StoreReturn(t, ok, rr)

SpecFmt == InitFmt /\ [][NextFmt]_vars

\* execute() has formatted the parsed response r.resp into r.result
Formatted(r) == r.pc = "done" /\ r.parsed /\ IsStr(r.resp.content)

\* the payload carries a non-empty list of citations
HasCitations(p) == p.citations.k = "arr" /\ Len(p.citations.items) > 0

\* the style DeepResearchTool::execute passes to its formatter
StyleOf(r) == StrOr(r.args.citation_style, "apa")

StartsWith(text, word) ==
    Len(word) <= Len(text) /\ SubSeq(text, 1, Len(word)) = word
EndsWith(text, word) ==
    /\ Len(word) <= Len(text)
    /\ SubSeq(text, Len(text) - Len(word) + 1, Len(text)) = word

\* C17: both formatters return the content unchanged when the payload has
\* no citations field, one that is not a list, or an empty list, whatever
\* the citation_style.
C17_NoCitationsNoSection ==
    \A r \in Invs :
        (Formatted(r) /\ ~HasCitations(r.resp)) =>
            r.result = Ok(r.resp.content.s)

C17_Witness ==
    \E r \in Invs :
        /\ Formatted(r)
        /\ r.tool = "deep_research"
        /\ r.args.citation_style = JStr("mla")
        /\ r.resp.citations = CitList(<<>>)
        /\ r.resp.iterations = JU64(3)
        /\ r.result = Ok("answer")

\* C18: the standard formatter, given a non-empty list of n citations,
\* appends "References:" and exactly n lines, line i being "[i]: " followed
\* by the entry's own string, or by "Unknown URL" for an entry that is a
\* structured record.
C18_ReferencesSection ==
    \A r \in Invs :
        (Formatted(r) /\ r.tool \in GatewayTools /\ HasCitations(r.resp)) =>
            LET cs == r.resp.citations.items
                line(i) == "[" \o ToString(i) \o "]: "
                           \o (IF cs[i].k = "str" THEN cs[i].s
                               ELSE "Unknown URL")
            IN  r.result =
                    Ok(r.resp.content.s \o "\n\nReferences:\n"
                       \o Join([i \in 1..Len(cs) |-> line(i)], "\n"))

C18_Witness ==
    \E r \in Invs :
        /\ Formatted(r)
        /\ r.tool = "search"
        /\ Len(r.resp.citations.items) = 2
        /\ r.resp.citations.items[1].k = "obj"
        /\ r.resp.citations.items[1].url = Absent
        /\ r.resp.citations.items[2] = CitStr("u2")
        /\ r.result = Ok("answer\n\nReferences:\n[1]: Unknown URL\n[2]: u2")

\* a structured record with a title and a url: the entries that get an APA
\* paragraph
Structured(c) == c.k = "obj" /\ IsStr(c.title) /\ IsStr(c.url)

\* C19: in the apa rendering, when every citation is a structured record
\* with a title and a url, a missing authors, date or publisher leaves
\* nothing behind: the text holds no empty parentheses and no doubled space.
C19_NoStrayPunctuation ==
    \A r \in Invs :
        (/\ Formatted(r)
         /\ r.tool = "deep_research"
         /\ StyleOf(r) = "apa"
         /\ HasCitations(r.resp)
         /\ \A i \in 1..Len(r.resp.citations.items) :
               Structured(r.resp.citations.items[i])) =>
            /\ ~Contains(r.result.text, "()")
            /\ ~Contains(r.result.text, "  ")

\* C20: in the apa rendering a list that mixes structured records and other
\* entries gives "## References" with one paragraph per entry, numbered by
\* its position: an APA paragraph (the authors, date and publisher it has,
\* then *title*. url) for a record with title and url, "[i] " and the
\* entry's string for any other; then "## Source Assessment" whose Total
\* Sources is the length of the list.
C20_ApaHeterogeneous ==
    \A r \in Invs :
        (/\ Formatted(r)
         /\ r.tool = "deep_research"
         /\ StyleOf(r) = "apa"
         /\ HasCitations(r.resp)) =>
            LET cs == r.resp.citations.items
                n == Len(cs)
                para(i) == ApaEntry(cs[i], i)
                num(i) == "[" \o ToString(i) \o "] "
            IN  /\ \A i \in 1..n :
                      IF Structured(cs[i])
                      THEN /\ StartsWith(para(i), num(i))
                           /\ EndsWith(para(i), "*" \o cs[i].title.s \o "*. "
                                                \o cs[i].url.s \o "\n\n")
                           /\ cs[i].authors.k = "arr" =>
                                 Contains(para(i),
                                          Join(StrItems(cs[i].authors.items),
                                               ", ") \o ". ")
                           /\ IsStr(cs[i].date) =>
                                 Contains(para(i), "(" \o cs[i].date.s \o "). ")
                           /\ IsStr(cs[i].publisher) =>
                                 Contains(para(i),
                                          "(" \o cs[i].publisher.s \o "). ")
                      ELSE para(i) = num(i) \o StrOr(cs[i], "Unknown source")
                                     \o "\n\n"
                /\ \E rest \in {"", "| Search Iterations | 3 |\n"} :
                      r.result =
                          Ok(r.resp.content.s \o "\n\n\n## References\n\n"
                             \o Join([i \in 1..n |-> para(i)], "")
                             \o "\n## Source Assessment\n\n"
                             \o "| Category | Metrics |\n"
                             \o "|----------|--------|\n"
                             \o "| Total Sources | " \o ToString(n) \o " |\n"
                             \o rest)

C20_Witness ==
    \E r \in Invs :
        /\ Formatted(r)
        /\ r.tool = "deep_research"
        /\ StyleOf(r) = "apa"
        /\ r.resp.citations.items =
              <<CitObj(JStr("T1"), JStr("u1"), Authors(<<JStr("A")>>),
                       JStr("2020"), Absent),
                CitStr("u2")>>
        /\ Contains(r.result.text, "## References\n\n[1] A. (2020). ")
        /\ Contains(r.result.text, "*T1*. u1\n\n[2] u2\n\n\n## Source Assessment")
        /\ Contains(r.result.text, "| Total Sources | 2 |")

-----------------------------------------------------------------------------
(* Specification for the styles of the deep-research formatter: every      *)
(* citation_style, and responses that differ in search_info.iterations     *)

StyleValues ==
    {Absent, JStr("apa"), JStr("mla"), JStr("chicago"), JStr("ieee"),
     JStr("APA"), JStr("harvard")}

StyleArgs ==
    {[EmptyArgs EXCEPT !.topic = JStr("q1"), !.citation_style = s] :
        s \in StyleValues}

StyleCitations ==
    {CitStr("u2"),
     CitObj(JStr("T1"), JStr("u1"), Authors(<<JStr("A")>>), JStr("2020"),
            Absent),
     CitObj(JStr("T1"), Absent, NoAuthors, Absent, Absent)}

\* search_info.iterations: missing, integers, and values that are no integer
IterationValues ==
    {Absent, JNull, JU64(3), JU64(0), JI64(-2), JU64Big, JF64, JStr("3")}

StylePayloads ==
    {Payload(JStr("answer"), Absent, NoUsage, CitList(l), it) :
        l \in UNION {[1..n -> StyleCitations] : n \in 0..MaxCites},
        it \in IterationValues}

NextStyle ==
    \/ \E t \in SeqTasks, args \in StyleArgs : Execute(t, "deep_research", args)
    \/ \E t \in SeqTasks, ok \in BOOLEAN : HttpReturn(t, ok)
    \/ \E t \in SeqTasks, ok \in BOOLEAN, p \in StylePayloads :
          JsonReturn(t, ok, p)

SpecStyle == InitFmt /\ [][NextStyle]_vars

\* word occurs in text
HasText(text, word) ==
    \E i \in 1..(Len(text) - Len(word) + 1) :
        SubSeq(text, i, i + Len(word) - 1) = word

\* C21: in the deep-research formatter every citation_style other than apa,
\* unrecognized ones included, turns a non-empty list into "## Sources"
\* followed by one line "[i]: url" per citation in list order, and the text
\* holds no "## References".
C21_OtherStylesFlatSources ==
    \A r \in Invs :
        (/\ Formatted(r)
         /\ r.tool = "deep_research"
         /\ StyleOf(r) # "apa"
         /\ HasCitations(r.resp)) =>
            LET cs == r.resp.citations.items
                line(i) == "[" \o ToString(i) \o "]: "
                           \o (IF cs[i].k = "str" THEN cs[i].s
                               ELSE "Unknown URL") \o "\n"
            IN  /\ r.result.st = "ok"
                /\ StartsWith(r.result.text,
                              r.resp.content.s \o "\n\n\n## Sources\n\n"
                              \o Join([i \in 1..Len(cs) |-> line(i)], "")
                              \o "\n## Source Assessment")
                /\ ~HasText(r.result.text, "## References")

C21_Witness ==
    \E r \in Invs :
        /\ Formatted(r)
        /\ r.args.citation_style = JStr("APA")
        /\ Len(r.resp.citations.items) = 2
        /\ r.resp.citations.items[2] = CitStr("u2")
        /\ HasText(r.result.text,
                   "\n## Sources\n\n[1]: Unknown URL\n[2]: u2\n")

\* a JSON number that is an integer, whatever its size
IsInteger(v) == v.k \in {"u64", "i64", "u64big"}

\* the table up to its Total Sources row
TableHead(n) ==
    "\n## Source Assessment\n\n"
    \o "| Category | Metrics |\n"
    \o "|----------|--------|\n"
    \o "| Total Sources | " \o ToString(n) \o " |\n"

\* C22 as stated: for every citation_style a non-empty list makes the output
\* end with the "## Source Assessment" table, Total Sources being the number
\* of citations, with a Search Iterations row exactly when
\* search_info.iterations is an integer.
C22_RowForEveryInteger ==
    \A r \in Invs :
        (Formatted(r) /\ r.tool = "deep_research" /\ HasCitations(r.resp)) =>
            LET n == Len(r.resp.citations.items)
                it == r.resp.iterations
            IN  IF it = JU64Big
                THEN HasText(r.result.text, "| Search Iterations | ")
                ELSE EndsWith(r.result.text,
                              TableHead(n)
                              \o (IF IsInteger(it)
                                  THEN "| Search Iterations | "
                                       \o ToString(it.n) \o " |\n"
                                  ELSE ""))

\* C22: for every citation_style a non-empty list makes the output end with
\* the "## Source Assessment" table, Total Sources being the number of
\* citations, with a Search Iterations row showing the value exactly when
\* search_info.iterations is an integer that fits a signed 64-bit integer.
C22_RowForEveryI64 ==
    \A r \in Invs :
        (Formatted(r) /\ r.tool = "deep_research" /\ HasCitations(r.resp)) =>
            LET n == Len(r.resp.citations.items)
                it == r.resp.iterations
            IN  EndsWith(r.result.text,
                         TableHead(n)
                         \o (IF it.k \in {"u64", "i64"}
                             THEN "| Search Iterations | "
                                  \o ToString(it.n) \o " |\n"
                             ELSE ""))

C22_Witness ==
    \E r \in Invs :
        /\ Formatted(r)
        /\ r.tool = "deep_research"
        /\ r.args.citation_style = JStr("chicago")
        /\ Len(r.resp.citations.items) = 2
        /\ r.resp.iterations = JU64Big
        /\ EndsWith(r.result.text, "| Total Sources | 2 |\n")

-----------------------------------------------------------------------------
(* Specification for the request DeepResearch builds: calls that differ in *)
(* their optional arguments                                                *)

TimeConstraints ==
    {Absent, JU64(5), JStr(""), JStr("recent"), JStr("latest news"),
     JStr("last year"), JStr("recent years"), JStr("the latest year"),
     JStr("2020"), JStr("Recent")}

RecencyArgs ==
    {[EmptyArgs EXCEPT !.topic = JStr("q1"), !.time_constraint = tc] :
        tc \in TimeConstraints}
    \cup {[EmptyArgs EXCEPT !.topic = JStr("q1"), !.focus = JStr("recent"),
                            !.depth = JStr("year")]}

NextRecency ==
    \/ \E t \in SeqTasks, args \in RecencyArgs :
          Execute(t, "deep_research", args)
    \/ \E t \in SeqTasks, ok \in BOOLEAN : HttpReturn(t, ok)
    \/ \E t \in SeqTasks, ok \in BOOLEAN, p \in Payloads : JsonReturn(t, ok, p)

SpecRecency == InitFmt /\ [][NextRecency]_vars

\* C23: the body DeepResearch sends has search_recency_filter "week" when
\* time_constraint contains "recent" or "latest", "month" when it contains
\* "year" and neither of them, and no search_recency_filter otherwise, a
\* missing time_constraint included; it always has temperature, max_tokens
\* and search_iterations.
C23_RecencyFromTimeConstraint ==
    \A r \in Invs :
        (r.tool = "deep_research" /\ r.httpCalls # <<>>) =>
            LET tc == IF r.args.time_constraint.k = "str"
                      THEN r.args.time_constraint.s ELSE ""
                b == r.httpCalls[1]
            IN  /\ b.search_recency_filter =
                      (IF HasText(tc, "recent") \/ HasText(tc, "latest")
                       THEN JStr("week")
                       ELSE IF HasText(tc, "year") THEN JStr("month")
                       ELSE Absent)
                /\ b.temperature # Absent
                /\ b.max_tokens # Absent
                /\ b.search_iterations # Absent

C23_Witness ==
    \E r \in Invs :
        /\ r.tool = "deep_research"
        /\ r.args.time_constraint = JStr("recent years")
        /\ Len(r.httpCalls) = 1
        /\ r.httpCalls[1].search_recency_filter = JStr("week")
        /\ r.httpCalls[1].search_iterations = JU64(10)

-----------------------------------------------------------------------------
(* Specification for the defaults of optional arguments: Search and        *)
(* DeepResearch called with and without them                               *)

DefaultsArgsOf(tool) ==
    IF tool = "search"
    THEN {[EmptyArgs EXCEPT !.query = JStr("q1"), !.detail_level = d] :
            d \in {Absent, JStr("normal"), JStr("brief"), JStr("detailed"),
                   JStr("terse"), JU64(1)}}
    ELSE {[EmptyArgs EXCEPT !.topic = JStr("q1"), !.depth = d,
                            !.citation_style = s] :
            d \in {Absent, JStr("comprehensive"), JStr("exhaustive")},
            s \in {Absent, JStr("apa"), JStr("ieee")}}

NextDefaults ==
    \/ \E t \in SeqTasks, tool \in FmtTools :
          \E args \in DefaultsArgsOf(tool) : Execute(t, tool, args)
    \/ \E t \in SeqTasks : SimilaritiesReturn(t)
    \/ \E t \in SeqTasks, ok \in BOOLEAN : HttpReturn(t, ok)
    \/ \E t \in SeqTasks, ok \in BOOLEAN, p \in Payloads : JsonReturn(t, ok, p)
    \/ \E t \in SeqTasks, ok \in BOOLEAN, rr \in ReportReturns :
          StoreReturn(t, ok, rr)

SpecDefaults == InitFmt /\ [][NextDefaults]_vars

\* the prompt in the request the call sent: the content of its user message
SentPrompt(r) ==
    r.httpCalls[1].messages[Len(r.httpCalls[1].messages)].content

\* C24 as stated: when detail_level, depth or citation_style is absent, the
\* prompt sent contains the default value (normal, comprehensive, apa) and
\* equals the prompt built when the default is passed explicitly.
C24_DefaultVerbatim ==
    \A r \in Invs :
        r.httpCalls # <<>> =>
            /\ (r.tool = "search" /\ r.args.detail_level = Absent) =>
                  /\ HasText(SentPrompt(r), "normal")
                  /\ SentPrompt(r) =
                        Prompt(r.tool, [r.args EXCEPT
                                          !.detail_level = JStr("normal")])
            /\ (r.tool = "deep_research" /\ r.args.depth = Absent) =>
                  /\ HasText(SentPrompt(r), "comprehensive")
                  /\ SentPrompt(r) =
                        Prompt(r.tool, [r.args EXCEPT
                                          !.depth = JStr("comprehensive")])
            /\ (r.tool = "deep_research" /\ r.args.citation_style = Absent) =>
                  /\ HasText(SentPrompt(r), "apa")
                  /\ SentPrompt(r) =
                        Prompt(r.tool, [r.args EXCEPT
                                          !.citation_style = JStr("apa")])

\* C24: when depth or citation_style is absent, the DeepResearch prompt
\* says "should be comprehensive" and "using apa format" and equals the
\* prompt built with the default passed explicitly; when detail_level is
\* absent, the Search prompt is the balanced one, equal to the prompt built
\* with "normal" passed explicitly, and does not contain the word normal.
C24_DefaultsInPrompt ==
    \A r \in Invs :
        r.httpCalls # <<>> =>
            /\ (r.tool = "search" /\ r.args.detail_level = Absent) =>
                  /\ SentPrompt(r) =
                        "Provide a clear, balanced answer to: "
                        \o r.args.query.s
                        \o ". Include key points and relevant context."
                  /\ ~HasText(SentPrompt(r), "normal")
                  /\ SentPrompt(r) =
                        Prompt(r.tool, [r.args EXCEPT
                                          !.detail_level = JStr("normal")])
            /\ (r.tool = "deep_research" /\ r.args.depth = Absent) =>
                  /\ HasText(SentPrompt(r),
                             "Your research should be comprehensive\n")
                  /\ SentPrompt(r) =
                        Prompt(r.tool, [r.args EXCEPT
                                          !.depth = JStr("comprehensive")])
            /\ (r.tool = "deep_research" /\ r.args.citation_style = Absent) =>
                  /\ HasText(SentPrompt(r), "Cite all sources using apa format")
                  /\ SentPrompt(r) =
                        Prompt(r.tool, [r.args EXCEPT
                                          !.citation_style = JStr("apa")])

C24_Witness ==
    \E r \in Invs :
        /\ r.tool = "search"
        /\ r.args.detail_level = Absent
        /\ Len(r.httpCalls) = 1
        /\ SentPrompt(r) = "Provide a clear, balanced answer to: q1. Include key points and relevant context."

-----------------------------------------------------------------------------
(* Specification for the lookup: a backend that already holds two entries  *)
(* and returns lists in any order; the list returned is kept whole         *)

SeedArgs(q) == [EmptyArgs EXCEPT !.query = JStr(q)]

SeedEntry(q, p) ==
    [Candidate(GatewayModel, UserMessages(SearchPrompt(SeedArgs(q))), JNull)
        EXCEPT !.results = p]

SeedCache == {SeedEntry("q1", PGood), SeedEntry("q2", PPlain)}

\* what similarities() returned, the list included
SimKept(ret) ==
    [st |-> ret.st, len |-> Len(ret.list),
     first |-> IF Len(ret.list) > 0 THEN ret.list[1] ELSE NoSimilarity,
     list |-> ret.list]

SimilaritiesReturnKept(t) ==
    /\ inv[t].pc = "similarities"
    /\ \E ret \in SimReturns, reportRet \in ReportReturns :
          inv' = [inv EXCEPT ![t] =
                    [AfterSimilarities(@, ret, reportRet)
                        EXCEPT !.simRet = SimKept(ret)]]
    /\ UNCHANGED <<cache, cacheKind, cred, ncalls>>

InitLookup ==
    /\ inv = [t \in SeqTasks |-> NewInv("search", NoArgs, {}, FALSE)]
    /\ cache = SeedCache
    /\ cacheKind = "backend"
    /\ cred = TRUE
    /\ ncalls = 0

NextLookup ==
    \/ \E t \in SeqTasks, q \in {"q1", "q3"} : Execute(t, "search", SeedArgs(q))
    \/ \E t \in SeqTasks : SimilaritiesReturnKept(t)
    \/ \E t \in SeqTasks, ok \in BOOLEAN : HttpReturn(t, ok)
    \/ \E t \in SeqTasks, ok \in BOOLEAN : ConcJsonReturn(t, ok)
    \/ \E t \in SeqTasks, ok \in BOOLEAN, rr \in ReportReturns :
          StoreReturn(t, ok, rr)

SpecLookup == InitLookup /\ [][NextLookup]_vars

\* C25: only the first entry of the list decides. When its score is not
\* above 0.95 the gateway sends the remote request, even if a later entry
\* scores above 0.95; when it is, the gateway returns the results of the
\* first entry and sends nothing.
C25_OnlyFirstEntryDecides ==
    \A r \in Invs :
        (r.simRet.st = "ok" /\ r.simRet.len > 0) =>
            IF r.simRet.list[1].score > Threshold
            THEN /\ r.gw = GwOk(r.simRet.list[1].query.results)
                 /\ r.httpCalls = <<>>
            ELSE /\ r.httpCalls = <<OwnBody(r)>>
                 /\ r.gw.st = "ok" => r.gw.val = r.resp

C25_Witness ==
    \E r \in Invs :
        /\ r.simRet.st = "ok"
        /\ r.simRet.len = 2
        /\ r.simRet.list[1].score = 95
        /\ r.simRet.list[2].score = 97
        /\ r.simRet.list[2].query = SeedEntry("q1", PGood)
        /\ r.args = SeedArgs("q1")
        /\ Len(r.httpCalls) = 1
        /\ r.pc = "done"
        /\ r.gw = GwOk(ResponseTo(r.httpCalls[1]))

\* C26: the credential is read only after the lookup has missed. A call
\* whose first similarity entry scores above 0.95 returns the cached results
\* without reading the credential, whether it is set or not; the
\* missing-credential error comes only from calls that missed, and every
\* call that missed has read the credential.
C26_CredentialOnlyOnMiss ==
    \A r \in Invs :
        r.tool \in GatewayTools =>
            /\ IsHit(r) =>
                 /\ r.key = "unread"
                 /\ r.gw = GwOk(r.simRet.first.query.results)
                 /\ r.result = format_response_with_references(r.gw.val)
            /\ r.gw = GwErr(ErrNoKey) => IsMiss(r) /\ r.key = "unset"
            /\ IsMiss(r) => r.key \in {"set", "unset"}

C26_Witness ==
    \E r \in Invs :
        /\ r.tool \in GatewayTools
        /\ IsHit(r)
        /\ ~cred
        /\ r.key = "unread"
        /\ r.pc = "done"
        /\ r.result.st = "ok"

\* C28: the gateway passes every parsed response to store(), whether or not
\* it has its content string; a later call whose first similarity entry
\* scores above 0.95 and holds such a payload ends with the
\* malformed-response error and sends no remote request.
C28_MalformedIsCachedAndServed ==
    \A r \in Invs :
        r.tool \in GatewayTools =>
            /\ r.parsed =>
                 r.storeCalls = <<[r.simCalls[1] EXCEPT !.results = r.resp]>>
            /\ (IsHit(r) /\ r.simRet.first.query.results.content.k # "str") =>
                 /\ r.pc = "done"
                 /\ r.httpCalls = <<>>
                 /\ r.result = Err(ErrNoContent)

C28_Witness ==
    \E r \in Invs :
        /\ r.tool \in GatewayTools
        /\ IsHit(r)
        /\ r.simRet.first.query \in cache
        /\ r.simRet.first.query.results = PNoContent
        /\ r.httpCalls = <<>>
        /\ r.result = Err(ErrNoContent)

\* C27: a call served from a cache hit reports usage when the cached
\* payload has a model name and the three token counts: it passes one
\* report with that model and those counts to report() and sends nothing.
\* Over several calls the reports can so outnumber the remote calls.
C27_HitReportsCachedUsage ==
    \A r \in Invs :
        (IsHit(r) /\ UsageAvailable(r.simRet.first.query.results)) =>
            LET p == r.simRet.first.query.results
            IN  /\ r.httpCalls = <<>>
                /\ Len(r.reports) = 1
                /\ r.reports[1].model = p.model.s
                /\ r.reports[1].completion_tokens = p.usage.completion_tokens.n
                /\ r.reports[1].prompt_tokens = p.usage.prompt_tokens.n
                /\ r.reports[1].total_tokens = p.usage.total_tokens.n

\* two calls, one remote call, two reports of the same token counts
C27_Witness ==
    /\ inv[1].pc = "done"
    /\ inv[2].pc = "done"
    /\ Len(inv[1].httpCalls) + Len(inv[2].httpCalls) = 1
    /\ Len(inv[1].reports) + Len(inv[2].reports) = 2
    /\ Len(inv[1].storeCalls) = 1
    /\ IsHit(inv[2])
    /\ inv[2].simRet.first.query = inv[1].storeCalls[1]
    /\ inv[2].reports[1].total_tokens = inv[1].reports[1].total_tokens

-----------------------------------------------------------------------------
(* Two calls to the same tool in flight at once with the same arguments    *)

TwinArgs == [EmptyArgs EXCEPT !.query = JStr("q1")]

NextTwin ==
    \/ \E t \in ConcTasks : Execute(t, "search", TwinArgs)
    \/ \E t \in ConcTasks : SimilaritiesReturn(t)
    \/ \E t \in ConcTasks, ok \in BOOLEAN : HttpReturn(t, ok)
    \/ \E t \in ConcTasks, ok \in BOOLEAN : ConcJsonReturn(t, ok)
    \/ \E t \in ConcTasks, ok \in BOOLEAN, rr \in ReportReturns :
          StoreReturn(t, ok, rr)
    \/ \E t \in ConcTasks, landed \in BOOLEAN : Cancel(t, landed)

SpecTwin == InitConc /\ [][NextTwin]_vars

\* C29: an invocation calls similarities() at most once, sends at most one
\* request and calls store() at most once, in that order, and it calls
\* store() exactly when its response was received and parsed; so in every
\* interleaving the store() calls of the invocations in flight number as many
\* as their parsed responses, and two invocations with the same arguments
\* whose lookups both found nothing both send a request and both store.
C29_OneLookupOneSendOneStore ==
    /\ \A r \in Invs :
          /\ Len(r.simCalls) <= 1
          /\ Len(r.httpCalls) <= 1
          /\ Len(r.storeCalls) <= 1
          /\ r.httpCalls # <<>> => r.simCalls # <<>> /\ r.simRet.st = "ok"
          /\ r.storeCalls # <<>> => r.httpCalls # <<>>
          /\ Len(r.storeCalls) = (IF r.parsed THEN 1 ELSE 0)
    /\ Cardinality({t \in DOMAIN inv : inv[t].storeCalls # <<>>})
          = Cardinality({t \in DOMAIN inv : inv[t].parsed})
    /\ \A r \in Invs :
          (r.simRet.st = "ok" /\ r.simRet.len = 0 /\ r.key = "set"
           /\ r.pc = "done" /\ r.gw.st = "ok") =>
              Len(r.httpCalls) = 1 /\ Len(r.storeCalls) = 1

\* both looked up while the cache was empty, both sent, both are storing
C29_Witness ==
    /\ cache = {}
    /\ \A t \in ConcTasks :
          /\ inv[t].pc = "store"
          /\ inv[t].args = TwinArgs
          /\ inv[t].simRet.st = "ok"
          /\ inv[t].simRet.len = 0
          /\ Len(inv[t].httpCalls) = 1
          /\ Len(inv[t].storeCalls) = 1

-----------------------------------------------------------------------------
(* Two gateway calls that differ in tool and arguments and are given the   *)
(* same list by similarities()                                             *)

\* an entry stored under another action, for another model
ForeignEntry ==
    [Candidate(DeepResearchModel, UserMessages("something else"), JStr("day"))
        EXCEPT !.action = "other_action", !.results = PPlain]

PairCache == {SeedEntry("q1", PGood), ForeignEntry}

PairCalls ==
    {[tool |-> "search",
      args |-> [SeedArgs("q2") EXCEPT !.search_recency_filter = JStr("week")]],
     [tool |-> "find_apis",
      args |-> [EmptyArgs EXCEPT !.requirement = JStr("q1")]]}

PairExecute(c1, c2) ==
    /\ \A t \in ConcTasks : inv[t].pc \in Finished
    /\ ncalls < MaxCalls
    /\ inv' = [t \in ConcTasks |->
                 LET c == IF t = 1 THEN c1 ELSE c2
                 IN  Begin(NewInv(c.tool, c.args, cache, FALSE))]
    /\ ncalls' = ncalls + 1
    /\ UNCHANGED <<cache, cacheKind, cred>>

\* similarities() returns the same list to both calls
PairSimilaritiesReturn ==
    /\ \A t \in ConcTasks : inv[t].pc = "similarities"
    /\ \E ret \in SimReturns, reportRet \in ReportReturns :
          inv' = [t \in ConcTasks |->
                    AfterSimilarities(inv[t], ret, reportRet)]
    /\ UNCHANGED <<cache, cacheKind, cred, ncalls>>

InitPair ==
    /\ inv = [t \in ConcTasks |-> NewInv("search", NoArgs, {}, FALSE)]
    /\ cache = PairCache
    /\ cacheKind = "backend"
    /\ cred = TRUE
    /\ ncalls = 0

NextPair ==
    \/ \E c1 \in PairCalls, c2 \in PairCalls : PairExecute(c1, c2)
    \/ PairSimilaritiesReturn
    \/ \E t \in ConcTasks, ok \in BOOLEAN : HttpReturn(t, ok)
    \/ \E t \in ConcTasks, ok \in BOOLEAN : ConcJsonReturn(t, ok)
    \/ \E t \in ConcTasks, ok \in BOOLEAN : StoreReturn(t, ok, "ok")

SpecPair == InitPair /\ [][NextPair]_vars

\* C30: the hit decision depends on the score of the first similarity entry
\* only. Two calls given the same list, whatever their tool, filter and
\* messages, both return the first entry's results when its score is above
\* 0.95, whether or not the entry's action, params and text are theirs, and
\* both send their request when it is not.
C30_HitIgnoresQuery ==
    \A r \in Invs :
        r.simRet.st = "ok" =>
            IF r.simRet.len > 0 /\ r.simRet.first.score > Threshold
            THEN /\ \A u \in Invs : u.gw = GwOk(r.simRet.first.query.results)
                 /\ r.httpCalls = <<>>
            ELSE \A u \in Invs : u.httpCalls = <<OwnBody(u)>>

C30_Witness ==
    /\ inv[1].tool # inv[2].tool
    /\ inv[1].simCalls[1].text # inv[2].simCalls[1].text
    /\ inv[1].simRet = inv[2].simRet
    /\ IsHit(inv[1])
    /\ inv[1].simRet.first.query = ForeignEntry
    /\ inv[1].gw = GwOk(PPlain)
    /\ inv[2].gw = GwOk(PPlain)

====
